---- MODULE Spec2Model ----
(***************************************************************************)
(* Fan-out / fan-in job coordinator of LoL Time Analysis.                  *)
(*                                                                         *)
(* One subject (player) is modelled: every key of the store is keyed by    *)
(* the subject, and the rate limit lock is global, so a second subject     *)
(* adds only workers contending for the same gate.                         *)
(*                                                                         *)
(* The request handler, the dispatcher, the fetch task and the aggregator  *)
(* follow docs/ARCHITECTURE.md and the sequence diagrams; what those       *)
(* documents leave open (tombstones, deduplicating append, the             *)
(* aggregator's count check, the retry bound) follows the specification.   *)
(*                                                                         *)
(* Time is a discrete clock.  Durations are scaled down together with the  *)
(* job size; the documents give 1.25 s between API calls, a dispatch lock  *)
(* of 5 minutes, a cooldown of 2 minutes and jobs of 879 matches taking    *)
(* 18+ minutes, so a job can outlive its lock.                             *)
(*                                                                         *)
(* Spec is the coordinator with the faults of its environment and nobody   *)
(* listening.  AdmitSpec is the request handler alone, over every          *)
(* combination of the keys it reads.  RelaySpec is the job without faults  *)
(* and with clients attaching to and leaving the status stream.            *)
(* ClientSpec is the job without faults together with the web client of    *)
(* hooks/usePlayerHistory.ts, which issues the requests and listens.       *)
(***************************************************************************)
EXTENDS Integers, FiniteSets, Sequences, TLC

\* ---------------------------------------------------------------- bounds
MaxItems == 2
NumWorkers == 2
MaxReq == 2
MaxTime == 3
MaxFaults == 1
MaxDup == 1
MaxRetry == 1
\* one clock tick is the interval between API calls (1.25 s)
RateInterval == 1
\* the other durations, in ticks, scaled down with the job size
LockTTL == 2
CooldownTTL == 2
Backoff == 2
StaleAfter == 2
NumListeners == 2
MaxMounts == 2
MaxVisits == 3
MaxSeconds == 2
MaxTotal == 8

Items == 1..MaxItems
Workers == 1..NumWorkers
Reqs == 1..MaxReq
Listeners == 1..NumListeners

VARIABLES
  now,          \* the clock
  nItems,       \* match ids the remote API enumerates for the subject
  fatal,        \* items the remote API can never deliver
  cache,        \* cache:{player}: the cached artifact
  cooldownExp,  \* cooldown:{player}: expiry time, 0 when absent
  lockExp,      \* lock:{player}: expiry time, 0 when absent
  gateExp,      \* riot_api_rate_limit_lock: expiry time, 0 when absent
  agg,          \* job:{player}:agg
  results,      \* job:{player}:results: entries per item and kind, and the
                \* place in the list of the item's first entry
  queue,        \* queued fetch_match_details_task per item
  dispatchQ,    \* queued dispatch_fetch_job tasks
  aggQ,         \* queued aggregate_results_task tasks
  wpc, witem, wtries, wwake,   \* each worker's position, task, retries, wake-up time
  req,          \* each request's outcome
  status,       \* last status published for the subject
  attached,     \* listeners of the subject's status stream
  received,     \* the event each listener saw last
  agpc,         \* the running aggregator's next step, 0 when none runs
  aglist,       \* the sorted list the running aggregator holds
  client,       \* the web client: the hook's state, its stream reference and
                \* its calls in flight
  hist          \* history: counters the properties read

vars == <<now, nItems, fatal, cache, cooldownExp, lockExp, gateExp, agg, results,
          queue, dispatchQ, aggQ, wpc, witem, wtries, wwake, req, status,
          attached, received, agpc, aglist, client, hist>>

NoCache == [exists |-> FALSE, data |-> <<>>]
NoAgg == [exists |-> FALSE, total |-> 0, processed |-> 0]
NoEntries == [i \in Items |-> [payload |-> 0, tombstone |-> 0, at |-> 0]]
NoReq == [outcome |-> "none", remaining |-> 0]

\* The fields of the player form and of the route.
Fields == {"region", "username", "tag"}

\* No route parameters, an empty form, no player.
NoParams == [region |-> "", username |-> "", tag |-> ""]

\* The player whose jobs the model runs, and another player.
Subject == [region |-> "x", username |-> "x", tag |-> "x"]
Other == [region |-> "x", username |-> "y", tag |-> "x"]
Players == {Subject, Other}

\* No GET /history in flight, no answer to a POST /update.
NoGet == [player |-> NoParams, code |-> "none",
          body |-> [cooldown |-> 0, in_progress |-> FALSE]]
NoResp == [code |-> "none", shape |-> "top", seconds |-> -1, flag |-> "absent"]

\* The hook before its first effect: initialState, no stream, no call, no
\* timeout; the form without error marks.
NoClient ==
  [status |-> "idle", formData |-> NoParams, history |-> NoParams,
   progress |-> 0, cooldown |-> 0,
   errors |-> [f \in Fields |-> FALSE],
   params |-> NoParams, mounts |-> 0, timer |-> 0,
   ref |-> 0, of |-> [l \in Listeners |-> NoParams],
   seen |-> [l \in Listeners |-> "none"],
   gets |-> [m \in 1..MaxVisits |-> NoGet],
   posts |-> [r \in Reqs |-> NoParams], resp |-> [r \in Reqs |-> NoResp],
   last |-> 0, refetch |-> FALSE]

Init ==
  /\ now = 0
  /\ nItems \in 0..MaxItems
  /\ fatal \in SUBSET (1..nItems)
  /\ cache = NoCache
  /\ cooldownExp = 0
  /\ lockExp = 0
  /\ gateExp = 0
  /\ agg = NoAgg
  /\ results = NoEntries
  /\ queue = [i \in Items |-> 0]
  /\ dispatchQ = 0
  /\ aggQ = 0
  /\ wpc = [w \in Workers |-> "idle"]
  /\ witem = [w \in Workers |-> 0]
  /\ wtries = [w \in Workers |-> 0]
  /\ wwake = [w \in Workers |-> 0]
  /\ req = [r \in Reqs |-> NoReq]
  /\ status = "idle"
  /\ attached = {}
  /\ received = [l \in Listeners |-> "none"]
  /\ agpc = 0
  /\ aglist = <<>>
  /\ client = NoClient
  /\ hist = [lockEnds |-> 0, created |-> 0, finished |-> 0, triggers |-> 0,
             completed |-> 0, lastGrant |-> -1, penaltyUntil |-> 0,
             faults |-> 0, dups |-> 0, idle |-> 0, reordered |-> FALSE,
             fault |-> "none", orphan |-> FALSE, written |-> 0,
             published |-> [processed |-> 0, total |-> 0]]

\* ------------------------------------------------------------ store keys
\* A key with a TTL is present until its expiry time.
Held(exp) == exp > now

Max(a, b) == IF a >= b THEN a ELSE b

\* ------------------------------------------------------- status stream
\* The event the stream carries for a status: fetching is reported as
\* progress, the terminal statuses by their name.
Event(s) == IF s = "fetching" THEN "progress" ELSE s

\* What a progress event carries: {status:"progress", processed, total}.
Payload(a) == [processed |-> a.processed, total |-> a.total]

\* Mutant: an event is consumed by one of the attached listeners.
Deliver_SingleConsumer(e) ==
  [l \in Listeners |->
     IF l \in attached /\ (\A k \in attached : l <= k) THEN e ELSE received[l]]

\* The relay forwards event e to every listener attached now and keeps
\* nothing for the others.
Deliver(e) == [l \in Listeners |-> IF l \in attached THEN e ELSE received[l]]

\* ------------------------------------------------- Phase 1: request handling
\* Mutant: the lock check never refuses.
LockFree_Unchecked == TRUE

\* SET lock:{player} NX EX: granted only when the key is absent.
LockFree == ~Held(lockExp)

\* Mutant: the rejection carries the configured cooldown, not what is left.
RemainingCooldown_FullTTL == CooldownTTL

\* What is left of the cooldown: the marker's expiry time minus the clock.
RemainingCooldown == cooldownExp - now

\* Mutant: the lock is checked first, then cache and cooldown.
Admit_LockFirst(r) ==
  /\ req[r].outcome = "none"
  /\ \A q \in Reqs : q < r => req[q].outcome # "none"
  /\ IF ~LockFree
       THEN /\ req' = [req EXCEPT ![r].outcome = "in_progress"]
            /\ UNCHANGED <<lockExp, dispatchQ, status, hist>>
     ELSE IF cache.exists
       THEN /\ req' = [req EXCEPT ![r].outcome = "cached"]
            /\ UNCHANGED <<lockExp, dispatchQ, status, hist>>
     ELSE IF Held(cooldownExp)
       THEN /\ req' = [req EXCEPT ![r].outcome = "cooldown",
                                  ![r].remaining = RemainingCooldown]
            /\ UNCHANGED <<lockExp, dispatchQ, status, hist>>
     ELSE /\ req' = [req EXCEPT ![r].outcome = "accepted"]
          /\ lockExp' = now + LockTTL
          /\ dispatchQ' = dispatchQ + 1
          /\ status' = "dispatched"
          /\ UNCHANGED hist
  /\ UNCHANGED <<now, nItems, fatal, cache, cooldownExp, gateExp, agg, results,
                 queue, aggQ, wpc, witem, wtries, wwake>>
  /\ UNCHANGED <<attached, received>>
  /\ UNCHANGED <<agpc, aglist>>
  /\ UNCHANGED client

\* Cache check, cooldown check, lock check, job dispatch.
Admit(r) ==
  /\ req[r].outcome = "none"
  /\ \A q \in Reqs : q < r => req[q].outcome # "none"
  /\ IF cache.exists
       THEN /\ req' = [req EXCEPT ![r].outcome = "cached"]
            /\ UNCHANGED <<lockExp, dispatchQ, status, hist>>
     ELSE IF Held(cooldownExp)
       THEN /\ req' = [req EXCEPT ![r].outcome = "cooldown",
                                  ![r].remaining = RemainingCooldown]
            /\ UNCHANGED <<lockExp, dispatchQ, status, hist>>
     ELSE IF ~LockFree
       THEN /\ req' = [req EXCEPT ![r].outcome = "in_progress"]
            /\ UNCHANGED <<lockExp, dispatchQ, status, hist>>
     ELSE /\ req' = [req EXCEPT ![r].outcome = "accepted"]
          /\ lockExp' = now + LockTTL
          /\ dispatchQ' = dispatchQ + 1
          /\ status' = "dispatched"
          /\ UNCHANGED hist
  /\ UNCHANGED <<now, nItems, fatal, cache, cooldownExp, gateExp, agg, results,
                 queue, aggQ, wpc, witem, wtries, wwake>>
  /\ UNCHANGED <<attached, received>>
  /\ UNCHANGED <<agpc, aglist>>
  /\ UNCHANGED client

\* ------------------------------------------------------------------ time
\* Mutant: a key set with a TTL stays until it is deleted.
Expire_Never(exp) == exp

\* One tick; keys whose TTL has run out disappear.
Expire(exp) == IF exp # 0 /\ exp <= now + 1 THEN 0 ELSE exp

Tick ==
  /\ now < MaxTime
  /\ now' = now + 1
  /\ lockExp' = Expire(lockExp)
  /\ gateExp' = Expire(gateExp)
  /\ cooldownExp' = Expire(cooldownExp)
  /\ hist' = [hist EXCEPT
                !.lockEnds = IF lockExp # 0 /\ lockExp' = 0 THEN @ + 1 ELSE @,
                !.lastGrant = IF @ # -1 /\ @ + RateInterval <= now + 1 THEN -1 ELSE @,
                !.penaltyUntil = Expire(@),
                !.idle = IF agg.exists /\ @ < StaleAfter THEN @ + 1 ELSE @]
  /\ UNCHANGED <<nItems, fatal, cache, agg, results, queue, dispatchQ, aggQ,
                 wpc, witem, wtries, wwake, req, status>>
  /\ UNCHANGED <<attached, received>>
  /\ UNCHANGED <<agpc, aglist>>
  /\ UNCHANGED client

\* ------------------------------------------------- Phase 2: job dispatch
\* The match ids of the subject; none when the player has no ranked games.
Enumerated == 1..nItems

\* Mutant: total is the number of matches asked for, not the number returned.
NewAgg_Cap(n) == [exists |-> TRUE, total |-> MaxItems, processed |-> 0]

\* Create aggregation state: job:{player}:agg {total: N, processed: 0}.
NewAgg(n) == [exists |-> TRUE, total |-> n, processed |-> 0]

\* Mutant: without match ids the lock is left to its TTL.
NoMatches_LockLeft ==
  /\ status' = "no_matches"
  /\ UNCHANGED <<lockExp, hist, agg, queue>>

\* The enumeration yields nothing: no job is created, the lock is released
\* and the terminal status "no_matches" is published.
NoMatches ==
  /\ lockExp' = 0
  /\ status' = "no_matches"
  /\ hist' = [hist EXCEPT !.lockEnds = IF lockExp # 0 THEN @ + 1 ELSE @]
  /\ UNCHANGED <<agg, queue>>

\* Get PUUID, fetch match ids, create aggregation state, enqueue one
\* fetch_match_details_task per match id.  Without match ids no job is
\* created, the lock is released and "no_matches" is published.
dispatch_fetch_job ==
  /\ dispatchQ > 0
  /\ dispatchQ' = dispatchQ - 1
  /\ IF Enumerated = {}
       THEN NoMatches
       ELSE /\ agg' = NewAgg(Cardinality(Enumerated))
            /\ queue' = [i \in Items |-> IF i \in Enumerated THEN queue[i] + 1 ELSE queue[i]]
            /\ status' = "fetching"
            /\ hist' = [hist EXCEPT !.created = @ + 1, !.triggers = 0, !.idle = 0,
                                    !.published = Payload(agg')]
            /\ UNCHANGED lockExp
  /\ UNCHANGED <<now, nItems, fatal, cache, cooldownExp, gateExp, results, aggQ,
                 wpc, witem, wtries, wwake, req>>
  /\ received' = Deliver(Event(status'))
  /\ UNCHANGED attached
  /\ UNCHANGED <<agpc, aglist>>
  /\ UNCHANGED client

\* ------------------------------------------- Phase 3: fetch_match_details_task
\* A worker of the pool picks a queued task.
TakeTask(w, i) ==
  /\ wpc[w] = "idle"
  /\ queue[i] > 0
  /\ queue' = [queue EXCEPT ![i] = @ - 1]
  /\ wpc' = [wpc EXCEPT ![w] = "gate"]
  /\ witem' = [witem EXCEPT ![w] = i]
  /\ wtries' = [wtries EXCEPT ![w] = 0]
  /\ UNCHANGED <<now, nItems, fatal, cache, cooldownExp, lockExp, gateExp, agg,
                 results, dispatchQ, aggQ, wwake, req, status, hist>>
  /\ UNCHANGED <<attached, received>>
  /\ UNCHANGED <<agpc, aglist>>
  /\ UNCHANGED client

\* Mutant: the rate limit lock is taken without looking at it.
GateFree_Unchecked == TRUE

\* riot_api_rate_limit_lock -> "1" with a TTL of one interval: SET NX, granted
\* only while the key is absent.
GateFree == ~Held(gateExp)

\* Acquire rate limit lock (one interval between API calls).
AcquireGate(w) ==
  /\ wpc[w] = "gate"
  /\ GateFree
  /\ gateExp' = now + RateInterval
  /\ wpc' = [wpc EXCEPT ![w] = "fetch"]
  /\ hist' = [hist EXCEPT !.lastGrant = now]
  /\ UNCHANGED <<now, nItems, fatal, cache, cooldownExp, lockExp, agg, results,
                 queue, dispatchQ, aggQ, witem, wtries, wwake, req, status>>
  /\ UNCHANGED <<attached, received>>
  /\ UNCHANGED <<agpc, aglist>>
  /\ UNCHANGED client

\* The worker gives up its task and returns to the pool.
Release(w) ==
  /\ wpc' = [wpc EXCEPT ![w] = "idle"]
  /\ witem' = [witem EXCEPT ![w] = 0]
  /\ wtries' = [wtries EXCEPT ![w] = 0]
  /\ wwake' = [wwake EXCEPT ![w] = 0]

\* Entries recorded for item i.
Entries(res, i) == res[i].payload + res[i].tombstone

\* The number of entries of the result list.
RECURSIVE CountUpTo(_, _)
CountUpTo(res, n) == IF n = 0 THEN 0 ELSE Entries(res, n) + CountUpTo(res, n - 1)

EntryCount(res) == CountUpTo(res, MaxItems)

\* The place an entry of item i goes to: behind the entries already there
\* (kept from the item's first entry).
Place(res, i) == IF res[i].at = 0 THEN EntryCount(res) + 1 ELSE res[i].at

\* Mutant: a plain list append.
AppendEntry_NoDedup(res, i, kind) ==
  [res EXCEPT ![i][kind] = @ + 1, ![i].at = Place(res, i)]

\* Store the result: append {item_id, payload}, deduplicating on item_id.
AppendEntry(res, i, kind) ==
  IF Entries(res, i) > 0 THEN res
  ELSE [res EXCEPT ![i][kind] = @ + 1, ![i].at = Place(res, i)]

\* A task whose job state is gone has nothing to record.
Stored(res, i, kind) == IF agg.exists THEN AppendEntry(res, i, kind) ELSE res

\* Fetch match details from the remote API and store the result.
FetchOk(w) ==
  /\ wpc[w] = "fetch"
  /\ witem[w] \notin fatal
  /\ results' = Stored(results, witem[w], "payload")
  /\ wpc' = [wpc EXCEPT ![w] = "incr"]
  /\ UNCHANGED <<now, nItems, fatal, cache, cooldownExp, lockExp, gateExp, agg,
                 queue, dispatchQ, aggQ, witem, wtries, wwake, req, status, hist>>
  /\ UNCHANGED <<attached, received>>
  /\ UNCHANGED <<agpc, aglist>>
  /\ UNCHANGED client

\* Mutant: a permanently missing match fails its task, nothing is counted.
FetchFatal_TaskFails(w) ==
  /\ wpc[w] = "fetch"
  /\ witem[w] \in fatal
  /\ wpc' = [wpc EXCEPT ![w] = "idle"]
  /\ witem' = [witem EXCEPT ![w] = 0]
  /\ wtries' = [wtries EXCEPT ![w] = 0]
  /\ UNCHANGED <<now, nItems, fatal, cache, cooldownExp, lockExp, gateExp, agg, results,
                 queue, dispatchQ, aggQ, wwake, req, status, hist>>
  /\ UNCHANGED <<attached, received>>
  /\ UNCHANGED <<agpc, aglist>>
  /\ UNCHANGED client

\* The match is permanently missing: a tombstone is stored in its place.
FetchFatal(w) ==
  /\ wpc[w] = "fetch"
  /\ witem[w] \in fatal
  /\ results' = Stored(results, witem[w], "tombstone")
  /\ wpc' = [wpc EXCEPT ![w] = "incr"]
  /\ UNCHANGED <<now, nItems, fatal, cache, cooldownExp, lockExp, gateExp, agg,
                 queue, dispatchQ, aggQ, witem, wtries, wwake, req, status, hist>>
  /\ UNCHANGED <<attached, received>>
  /\ UNCHANGED <<agpc, aglist>>
  /\ UNCHANGED client

\* What a 429 response with backoff b does to the rate limit lock: the worker
\* waits and retries on its own, the lock is left to its TTL.
Penalize(b) == gateExp

\* 429 from the remote API: wait and retry with backoff, up to the retry
\* bound; after that the task fails.
FetchRateLimited(w) ==
  /\ wpc[w] = "fetch"
  /\ gateExp' = Penalize(Backoff)
  /\ IF wtries[w] < MaxRetry
       THEN /\ wpc' = [wpc EXCEPT ![w] = "backoff"]
            /\ wtries' = [wtries EXCEPT ![w] = @ + 1]
            /\ wwake' = [wwake EXCEPT ![w] = now + Backoff]
            /\ hist' = [hist EXCEPT !.penaltyUntil = Max(@, now + Backoff)]
            /\ UNCHANGED witem
       ELSE /\ hist.faults < MaxFaults
            /\ Release(w)
            /\ hist' = [hist EXCEPT !.penaltyUntil = Max(@, now + Backoff),
                                    !.faults = @ + 1, !.fault = "exhausted"]
  /\ UNCHANGED <<now, nItems, fatal, cache, cooldownExp, lockExp, agg, results,
                 queue, dispatchQ, aggQ, req, status>>
  /\ UNCHANGED <<attached, received>>
  /\ UNCHANGED <<agpc, aglist>>
  /\ UNCHANGED client

\* The backoff has passed: the worker retries, through the gate again.
Retry(w) ==
  /\ wpc[w] = "backoff"
  /\ wwake[w] <= now
  /\ wpc' = [wpc EXCEPT ![w] = "gate"]
  /\ wwake' = [wwake EXCEPT ![w] = 0]
  /\ UNCHANGED <<now, nItems, fatal, cache, cooldownExp, lockExp, gateExp, agg,
                 results, queue, dispatchQ, aggQ, witem, wtries, req, status, hist>>
  /\ UNCHANGED <<attached, received>>
  /\ UNCHANGED <<agpc, aglist>>
  /\ UNCHANGED client

\* Network timeout: the task fails (no retry mechanism).
FetchTimeout(w) ==
  /\ wpc[w] = "fetch"
  /\ hist.faults < MaxFaults
  /\ Release(w)
  /\ hist' = [hist EXCEPT !.faults = @ + 1, !.fault = "timeout"]
  /\ UNCHANGED <<now, nItems, fatal, cache, cooldownExp, lockExp, gateExp, agg,
                 results, queue, dispatchQ, aggQ, req, status>>
  /\ UNCHANGED <<attached, received>>
  /\ UNCHANGED <<agpc, aglist>>
  /\ UNCHANGED client

\* The atomic increment: the counter's new value, which it returns.
Incremented(a) == a.processed + 1

\* Mutant: the value read before the increment is compared with total.
IsLast_BeforeIncrement(new, total) == new - 1 = total

\* Mutant: every increment at or past total triggers.
IsLast_AtLeast(new, total) == new >= total

\* If last task (processed == total): trigger aggregate_results_task.
IsLast(new, total) == new = total

\* Increment processed counter atomically and compare what it returned.
\* A task whose job state is gone has nothing to advance.
IncrProcessed(w) ==
  /\ wpc[w] = "incr"
  /\ Release(w)
  /\ IF agg.exists
       THEN /\ agg' = [agg EXCEPT !.processed = Incremented(agg)]
            /\ status' = "fetching"
            /\ IF IsLast(Incremented(agg), agg.total)
                 THEN /\ aggQ' = aggQ + 1
                      /\ hist' = [hist EXCEPT !.triggers = @ + 1, !.idle = 0,
                                              !.published = Payload(agg')]
                 ELSE /\ hist' = [hist EXCEPT !.idle = 0,
                                              !.published = Payload(agg')]
                      /\ UNCHANGED aggQ
       ELSE UNCHANGED <<agg, status, aggQ, hist>>
  /\ UNCHANGED <<now, nItems, fatal, cache, cooldownExp, lockExp, gateExp,
                 results, queue, dispatchQ, req>>
  /\ received' = (IF agg.exists THEN Deliver("progress") ELSE received)
  /\ UNCHANGED attached
  /\ UNCHANGED <<agpc, aglist>>
  /\ UNCHANGED client

\* ------------------------------------------------ faults of the environment
\* The worker process crashes: the task it was running is lost.
Crash(w) ==
  /\ wpc[w] # "idle"
  /\ hist.faults < MaxFaults
  /\ Release(w)
  /\ hist' = [hist EXCEPT !.faults = @ + 1, !.fault = "crash",
                          !.orphan = (wpc[w] = "fetch" /\ Held(gateExp))]
  /\ UNCHANGED <<now, nItems, fatal, cache, cooldownExp, lockExp, gateExp, agg,
                 results, queue, dispatchQ, aggQ, req, status>>
  /\ UNCHANGED <<attached, received>>
  /\ UNCHANGED <<agpc, aglist>>
  /\ UNCHANGED client

\* The queue delivers the task of item i once more.
DuplicateDelivery(i) ==
  /\ agg.exists
  /\ i \in 1..agg.total
  /\ hist.dups < MaxDup
  /\ queue' = [queue EXCEPT ![i] = @ + 1]
  /\ hist' = [hist EXCEPT !.dups = @ + 1]
  /\ UNCHANGED <<now, nItems, fatal, cache, cooldownExp, lockExp, gateExp, agg,
                 results, dispatchQ, aggQ, wpc, witem, wtries, wwake, req, status>>
  /\ UNCHANGED <<attached, received>>
  /\ UNCHANGED <<agpc, aglist>>
  /\ UNCHANGED client

\* ------------------------------------------- Phase 4: aggregate_results_task
\* n copies of item i.
RECURSIVE Copies(_, _)
Copies(i, n) == IF n = 0 THEN <<>> ELSE <<i>> \o Copies(i, n - 1)

\* The payloads among the first k places of the result list, in the order
\* they were stored (tombstones carry none).
RECURSIVE ListUpTo(_, _)
ListUpTo(res, k) ==
  IF k = 0 THEN <<>>
  ELSE ListUpTo(res, k - 1) \o
       (IF \E i \in Items : res[i].at = k
          THEN LET i == CHOOSE j \in Items : res[j].at = k
               IN  Copies(i, res[i].payload)
          ELSE <<>>)

\* Mutant: the range read from the list stops one entry short.
Collected_Truncated(res) == ListUpTo(res, EntryCount(res) - 1)

\* Collect all results from the list.
Collected(res) == ListUpTo(res, EntryCount(res))

\* Each match carries the time it was played; the later match has the
\* larger id.
Timestamp(i) == i

\* x put into a sequence that is sorted newest first.
RECURSIVE Insert(_, _)
Insert(x, seq) ==
  IF seq = <<>> THEN <<x>>
  ELSE IF Timestamp(x) >= Timestamp(Head(seq)) THEN <<x>> \o seq
  ELSE <<Head(seq)>> \o Insert(x, Tail(seq))

\* Mutant: the results are cached in the order they arrived.
SortNewestFirst_Unsorted(seq) == seq

\* Sort by timestamp (newest first).
RECURSIVE SortNewestFirst(_)
SortNewestFirst(seq) ==
  IF seq = <<>> THEN <<>> ELSE Insert(Head(seq), SortNewestFirst(Tail(seq)))

\* Mutant: whatever the list holds is accepted.
Verified_Unchecked(res, a) == TRUE

\* Mutant: only an empty list fails the job, the count is not compared.
Verified_NonEmpty(res, a) == EntryCount(res) > 0

\* The defensive check: an empty result list, or an entry count that differs
\* from total, fails the job.
Verified(res, a) == EntryCount(res) > 0 /\ EntryCount(res) = a.total

\* Mutant: the job keys and the lock are deleted before anything is saved.
AggregatorSteps_CleanupFirst == <<"cleanup", "save", "cooldown">>

\* What the aggregator does with the sorted list, in this order: save to
\* cache, set cooldown, cleanup job state.
AggregatorSteps == <<"save", "cooldown", "cleanup">>

\* Collect all results, verify the count and sort; on a failed check publish
\* "failed".  Without job state there is nothing to aggregate.
aggregate_results_task ==
  /\ aggQ > 0
  /\ agpc = 0
  /\ aggQ' = aggQ - 1
  /\ IF ~agg.exists
       THEN /\ UNCHANGED <<status, hist, agpc, aglist>>
            /\ UNCHANGED received
     ELSE IF ~Verified(results, agg)
       THEN /\ status' = "failed"
            /\ hist' = [hist EXCEPT !.finished = @ + 1]
            /\ received' = Deliver("failed")
            /\ UNCHANGED <<agpc, aglist>>
     ELSE /\ aglist' = SortNewestFirst(Collected(results))
          /\ agpc' = 1
          /\ hist' = [hist EXCEPT !.reordered = (aglist' # Collected(results))]
          /\ UNCHANGED <<status, received>>
  /\ UNCHANGED <<now, nItems, fatal, cache, cooldownExp, lockExp, gateExp, agg, results,
                 queue, dispatchQ, wpc, witem, wtries, wwake, req, attached, client>>

\* The next step of the running aggregator; after the last one it publishes
\* "completed".
AggregatorStep ==
  /\ agpc > 0
  /\ LET step == AggregatorSteps[agpc] IN
       /\ cache' = (IF step = "save" THEN [exists |-> TRUE, data |-> aglist] ELSE cache)
       /\ cooldownExp' = (IF step = "cooldown" THEN now + CooldownTTL ELSE cooldownExp)
       /\ agg' = (IF step = "cleanup" THEN NoAgg ELSE agg)
       /\ results' = (IF step = "cleanup" THEN NoEntries ELSE results)
       /\ lockExp' = (IF step = "cleanup" THEN 0 ELSE lockExp)
       /\ IF agpc = Len(AggregatorSteps)
            THEN /\ agpc' = 0
                 /\ aglist' = <<>>
                 /\ status' = "completed"
                 /\ received' = Deliver("completed")
                 /\ hist' = [hist EXCEPT
                               !.finished = @ + 1, !.completed = @ + 1, !.idle = 0,
                               !.lockEnds = IF lockExp # 0 /\ lockExp' = 0 THEN @ + 1 ELSE @,
                               !.written = 0]
            ELSE /\ agpc' = agpc + 1
                 /\ hist' = [hist EXCEPT
                               !.lockEnds = IF lockExp # 0 /\ lockExp' = 0 THEN @ + 1 ELSE @,
                               !.written = IF step = "cleanup" THEN @ ELSE @ + 1]
                 /\ UNCHANGED <<aglist, status, received>>
  /\ UNCHANGED <<now, nItems, fatal, gateExp, queue, dispatchQ, aggQ,
                 wpc, witem, wtries, wwake, req, attached, client>>

Next ==
  \/ \E r \in Reqs : Admit(r)
  \/ dispatch_fetch_job
  \/ \E w \in Workers, i \in Items : TakeTask(w, i)
  \/ \E w \in Workers : AcquireGate(w)
  \/ \E w \in Workers : FetchOk(w)
  \/ \E w \in Workers : FetchFatal(w)
  \/ \E w \in Workers : FetchRateLimited(w)
  \/ \E w \in Workers : Retry(w)
  \/ \E w \in Workers : FetchTimeout(w)
  \/ \E w \in Workers : IncrProcessed(w)
  \/ \E w \in Workers : Crash(w)
  \/ \E i \in Items : DuplicateDelivery(i)
  \/ aggregate_results_task
  \/ AggregatorStep
  \/ Tick

Spec == Init /\ [][Next]_vars

\* ------------------------------------------- the request handler by itself
\* The artifact of an earlier job over n matches, newest first.
RECURSIVE Newest(_)
Newest(n) == IF n = 0 THEN <<>> ELSE <<n>> \o Newest(n - 1)

\* The request handler decides on the three keys it reads, each with a TTL
\* of its own: it meets them in any combination earlier jobs, expiry and
\* manual cleanup may have left.
AdmitInit ==
  /\ now = 0
  /\ nItems \in 0..MaxItems
  /\ fatal = {}
  /\ cache \in {NoCache, [exists |-> TRUE, data |-> Newest(nItems)]}
  /\ cooldownExp \in 0..CooldownTTL
  /\ lockExp \in 0..LockTTL
  /\ gateExp = 0
  /\ agg = NoAgg
  /\ results = NoEntries
  /\ queue = [i \in Items |-> 0]
  /\ dispatchQ = 0
  /\ aggQ = 0
  /\ wpc = [w \in Workers |-> "idle"]
  /\ witem = [w \in Workers |-> 0]
  /\ wtries = [w \in Workers |-> 0]
  /\ wwake = [w \in Workers |-> 0]
  /\ req = [r \in Reqs |-> NoReq]
  /\ status = "idle"
  /\ attached = {}
  /\ received = [l \in Listeners |-> "none"]
  /\ agpc = 0
  /\ aglist = <<>>
  /\ client = NoClient
  /\ hist = [lockEnds |-> 0, created |-> 0, finished |-> 0, triggers |-> 0,
             completed |-> 0, lastGrant |-> -1, penaltyUntil |-> 0,
             faults |-> 0, dups |-> 0, idle |-> 0, reordered |-> FALSE,
             fault |-> "none", orphan |-> FALSE, written |-> 0,
             published |-> [processed |-> 0, total |-> 0]]

AdmitNext ==
  \/ \E r \in Reqs : Admit(r)
  \/ Tick

AdmitSpec == AdmitInit /\ [][AdmitNext]_vars

\* --------------------------------------------- the job with its listeners
\* What the coordinator itself reads and writes; no listener touches it.
jobVars == <<now, nItems, fatal, cache, cooldownExp, lockExp, gateExp, agg, results,
             queue, dispatchQ, aggQ, wpc, witem, wtries, wwake, req, status,
             agpc, aglist, hist>>

\* A client opens the subject's status stream: it gets what is published
\* from now on.
Attach(l) ==
  /\ l \notin attached
  /\ attached' = attached \cup {l}
  /\ UNCHANGED <<received, client, jobVars>>

\* A client closes its stream.
Detach(l) ==
  /\ l \in attached
  /\ attached' = attached \ {l}
  /\ UNCHANGED <<received, client, jobVars>>

\* The job without faults of the environment, with listeners coming and
\* going at any time.
RelayNext ==
  \/ \E l \in Listeners : Attach(l)
  \/ \E l \in Listeners : Detach(l)
  \/ \E r \in Reqs : Admit(r)
  \/ dispatch_fetch_job
  \/ \E w \in Workers, i \in Items : TakeTask(w, i)
  \/ \E w \in Workers : AcquireGate(w)
  \/ \E w \in Workers : FetchOk(w)
  \/ \E w \in Workers : FetchFatal(w)
  \/ \E w \in Workers : IncrProcessed(w)
  \/ aggregate_results_task
  \/ AggregatorStep
  \/ Tick

RelaySpec == Init /\ [][RelayNext]_vars

\* ------------------------------------------------- the client of one player
\* Mutant: the client does not take "no_matches" for a terminal event.
Terminal_WithoutNoMatches == {"completed", "failed"}

\* The terminal statuses: the events on which a client closes its stream.
Terminal == {"completed", "failed", "no_matches"}

\* The cooldown the client assumes when a 429 response names none (30 s,
\* scaled like the other durations).
DefaultCooldown == 1

\* Mutant: the quotient is cut, not rounded.
Round_Down(n, d) == n \div d

\* Math.round of the quotient n / d of two naturals: the nearest integer,
\* halves upwards.
Round(n, d) == (2 * n + d) \div (2 * d)

\* The percentage STREAM_PROGRESS stores: 0 when nothing is to be done.
Percentage(processed, total) ==
  IF total > 0 THEN Round(100 * processed, total) ELSE 0

\* The hook's reducer.  matchHistory is kept as the player it belongs to,
\* null as NoParams.
reducer(state, type, payload) ==
  CASE type = "FORM_CHANGE" ->
         [state EXCEPT !.formData[payload.field] = payload.value]
    [] type = "SEARCH" ->
         [state EXCEPT !.status = "loading", !.formData = payload,
                       !.history = NoParams, !.progress = 0, !.cooldown = 0]
    [] type = "UPDATE" ->
         [state EXCEPT !.status = "updating", !.progress = 0, !.cooldown = 0]
    [] type = "FETCH_SUCCESS" ->
         [state EXCEPT !.status = IF @ = "updating" THEN "updating" ELSE "success",
                       !.history = payload]
    [] type = "STREAM_PROGRESS" ->
         [state EXCEPT !.status = "updating",
                       !.progress = Percentage(payload.processed, payload.total)]
    [] type = "STREAM_SUCCESS" ->
         [state EXCEPT !.status = "success", !.history = payload, !.progress = 100]
    [] type = "STREAM_FAILURE" -> [state EXCEPT !.status = "error", !.progress = 0]
    [] type = "SET_COOLDOWN" -> [state EXCEPT !.status = "cooldown", !.cooldown = payload]
    [] type = "DECREMENT_COOLDOWN" ->
         [state EXCEPT !.cooldown = @ - 1,
                       !.status = IF state.cooldown - 1 > 0 THEN "cooldown" ELSE "success"]
    [] type = "PLAYER_NOT_FOUND" ->
         [state EXCEPT !.status = "error", !.history = NoParams]
    [] type = "PLAYER_FOUND_NO_HISTORY" ->
         [state EXCEPT !.status = "success", !.history = NoParams]
    [] OTHER -> state

\* The EventSources the client has open.
Open == {l \in Listeners : client.of[l] # NoParams}

\* The streams that stay open when the referenced one is closed.
KeptOpen == Open \ {client.ref}

\* The EventSource a call of createAndListenToEventSource creates.
NewStream == CHOOSE l \in Listeners : l \notin KeptOpen /\ \A k \in Listeners \ KeptOpen : l <= k

\* activeEventSourceRef.current.close() and the reference cleared.
CloseActive(state) ==
  [state EXCEPT !.ref = 0,
                !.of = [l \in Listeners |-> IF l = state.ref THEN NoParams ELSE @[l]]]

\* createAndListenToEventSource for player p: close the referenced stream
\* if there is one, open a new one and keep it as the active reference.
\* The new stream carries what is published for p from now on.
createAndListenToEventSource(state, p) ==
  /\ KeptOpen # Listeners
  /\ attached' = (attached \cap KeptOpen) \cup (IF p = Subject THEN {NewStream} ELSE {})
  /\ received' = [received EXCEPT ![NewStream] = "none"]
  /\ client' = [state EXCEPT
                  !.ref = NewStream,
                  !.of = [l \in Listeners |->
                            IF l = NewStream THEN p
                            ELSE IF l \in KeptOpen THEN client.of[l] ELSE NoParams],
                  !.seen[NewStream] = "none"]

\* All three route parameters are present.
Complete(p) == p.region # "" /\ p.username # "" /\ p.tag # ""

\* The partial-parameter branch of the route effect: FORM_CHANGE for each
\* parameter that is present.
Seeded(state, p) ==
  LET a == IF p.region # ""
             THEN reducer(state, "FORM_CHANGE", [field |-> "region", value |-> p.region])
             ELSE state
      b == IF p.username # ""
             THEN reducer(a, "FORM_CHANGE", [field |-> "username", value |-> p.username])
             ELSE a
  IN  IF p.tag # ""
        THEN reducer(b, "FORM_CHANGE", [field |-> "tag", value |-> p.tag])
        ELSE b

\* The route effect when the route parameters become p (on the first render
\* and on every navigation): the cleanup the previous run returned closes
\* the referenced stream, a run without any parameter returns none; then
\* nothing without parameters, SEARCH and GET /history with all three, and
\* the form seeded with some.
Routed(state, p) ==
  LET cleaned == IF state.params # NoParams THEN CloseActive(state) ELSE state
      routed == [cleaned EXCEPT !.params = p, !.mounts = @ + 1]
  IN  IF p = NoParams THEN routed
      ELSE IF Complete(p)
        THEN [reducer(routed, "SEARCH", p) EXCEPT
                !.gets[routed.mounts] = [NoGet EXCEPT !.player = p, !.code = "sent"]]
      ELSE Seeded(routed, p)

\* A navigation from state to the route of p, with the run of the route
\* effect that follows it.
navigate(state, p) ==
  /\ client.mounts < MaxVisits
  /\ attached' = IF client.params # NoParams THEN attached \ {client.ref} ELSE attached
  /\ client' = Routed(state, p)
  /\ UNCHANGED <<received, jobVars>>

\* The user opens the page of p, or the start page.
Mount(p) == navigate(client, p)

\* The answers GET /history has for call m: for the subject 404 when the
\* player is not found, 204 without cached history, else 200 with the
\* history, the cooldown left and whether a job is in progress; for another
\* player, whose jobs are not modelled, any of the three with no cooldown and
\* no job.
HistoryServed(m) ==
  /\ client.gets[m].code = "sent"
  /\ IF client.gets[m].player = Subject
       THEN \E code \in (IF cache.exists THEN {"r200"}
                         ELSE IF nItems = 0 THEN {"r204", "r404"} ELSE {"r204"}) :
              client' = [client EXCEPT
                 !.gets[m].code = code,
                 !.gets[m].body =
                    [cooldown |-> IF Held(cooldownExp) THEN RemainingCooldown ELSE 0,
                     in_progress |-> Held(lockExp)]]
       ELSE \E code \in {"r200", "r204", "r404"} :
              client' = [client EXCEPT !.gets[m].code = code]
  /\ UNCHANGED <<attached, received, jobVars>>

\* The client's handling of the response to call m; the handler still names
\* the player the call was made for.
OnHistory(m) ==
  /\ client.gets[m].code \in {"r200", "r204", "r404"}
  /\ LET get == client.gets[m]
         answered == [client EXCEPT !.gets[m] = NoGet]
         loaded == reducer(answered, "FETCH_SUCCESS", get.player)
         cooled == IF get.body.cooldown > 0
                     THEN reducer(loaded, "SET_COOLDOWN", get.body.cooldown)
                     ELSE loaded
     IN  CASE get.code = "r404" ->
                /\ client' = reducer(answered, "PLAYER_NOT_FOUND", 0)
                /\ UNCHANGED <<attached, received>>
           [] get.code = "r204" ->
                createAndListenToEventSource(
                  reducer(answered, "PLAYER_FOUND_NO_HISTORY", 0), get.player)
           [] get.code = "r200" ->
                IF get.body.in_progress
                  THEN createAndListenToEventSource(cooled, get.player)
                  ELSE /\ client' = cooled
                       /\ UNCHANGED <<attached, received>>
  /\ UNCHANGED jobVars

\* The form's inputs are disabled while the client is loading, updating or
\* cooling down.
InputsEnabled == client.status \notin {"loading", "updating", "cooldown"}

\* The submit button is disabled with the inputs and while a cooldown runs.
SubmitEnabled == InputsEnabled /\ ~(client.cooldown > 0)

\* Mutant: the form always offers the update.
canUpdate_Always == TRUE

\* The form shows the player of the route.
canUpdate == client.params = client.formData

\* handleInputChange: the field takes the value, and its error mark goes
\* when the value is not empty.
handleInputChange(field, value) ==
  /\ InputsEnabled
  /\ client' = [reducer(client, "FORM_CHANGE", [field |-> field, value |-> value])
                  EXCEPT !.errors[field] = IF value # "" THEN FALSE ELSE @]
  /\ UNCHANGED <<attached, received, jobVars>>

\* The request the next POST /update of the client is: the first one that
\* is neither in flight nor answered by the request handler.
Free(r) == client.posts[r] = NoParams /\ req[r].outcome = "none"
NextPost == CHOOSE r \in Reqs : Free(r) /\ \A q \in Reqs : q < r => ~Free(q)

\* triggerUpdate: nothing without all three route parameters, else UPDATE
\* and POST /update.
triggerUpdate(state) ==
  IF ~Complete(state.params) THEN state
  ELSE [reducer(state, "UPDATE", 0) EXCEPT !.posts[NextPost] = state.params]

\* The field is empty.
Empty(field) == client.formData[field] = ""

\* handleSubmit: the empty fields are marked; with one of them nothing more
\* happens, else onUpdate (triggerUpdate) when the form shows the player of
\* the route and onSearch (a navigation to the player of the form)
\* otherwise.
handleSubmit ==
  /\ SubmitEnabled
  /\ LET newErrors == [f \in Fields |-> Empty(f)]
         marked == [client EXCEPT !.errors = newErrors]
     IN  IF \E f \in Fields : newErrors[f]
           THEN /\ client' = marked
                /\ UNCHANGED <<attached, received, jobVars>>
         ELSE IF canUpdate
           THEN /\ \E r \in Reqs : Free(r)
                /\ client' = triggerUpdate(marked)
                /\ UNCHANGED <<attached, received, jobVars>>
         ELSE navigate(marked, client.formData)

\* The request handler answers the client's update request.
UpdateServed(r) == client.posts[r] = Subject /\ Admit(r)

\* What the request handler's answer looks like to the client: 429 with the
\* seconds left for a cooldown rejection, 429 with the in_progress flag for
\* a job in flight, else 200.
Response(q) ==
  CASE q.outcome = "none" -> NoResp
    [] q.outcome = "cooldown" ->
         [code |-> "r429", shape |-> "top", seconds |-> q.remaining, flag |-> "false"]
    [] q.outcome = "in_progress" ->
         [code |-> "r429", shape |-> "top", seconds |-> -1, flag |-> "true"]
    [] OTHER -> [code |-> "r200", shape |-> "top", seconds |-> -1, flag |-> "absent"]

\* The answer to request r: the request handler's, or the one a server the
\* model does not run has given.
Answer(r) == IF client.resp[r].code # "none" THEN client.resp[r] ELSE Response(req[r])

\* The try block of the 429 branch runs to its end: response.json() has
\* parsed the body and the parsed value has properties to read.
Readable(a) == a.shape \notin {"text", "null"}

\* cooldownTime: cooldown_seconds of the body or of its detail, or the first
\* number in a detail string, else the default.
cooldownTime(a) == IF a.seconds >= 0 THEN a.seconds ELSE DefaultCooldown

\* inProgressFlag: in_progress of the body or of its detail, else false.
inProgressFlag(a) == a.shape \in {"top", "detail"} /\ a.flag = "true"

\* The client's handling of the answer to request r.  429: the cooldown is
\* set and the stream opened only with the in_progress flag; when the body
\* cannot be read the catch block asks for its text, which the body already
\* consumed by response.json() refuses, and the outer catch reports a
\* failure.  Another answer that is not ok is a failure; an ok answer opens
\* the stream.
OnUpdateResponse(r) ==
  /\ client.posts[r] # NoParams
  /\ Answer(r).code # "none"
  /\ LET a == Answer(r)
         answered == [client EXCEPT !.posts[r] = NoParams, !.last = r, !.resp[r] = NoResp]
         cooled == reducer(answered, "SET_COOLDOWN", cooldownTime(a))
     IN  CASE a.code = "r429" /\ Readable(a) /\ inProgressFlag(a) ->
                createAndListenToEventSource(cooled, client.posts[r])
           [] a.code = "r429" /\ Readable(a) /\ ~inProgressFlag(a) ->
                /\ client' = cooled
                /\ UNCHANGED <<attached, received>>
           [] a.code = "r200" -> createAndListenToEventSource(answered, client.posts[r])
           [] OTHER ->
                /\ client' = reducer(answered, "STREAM_FAILURE", 0)
                /\ UNCHANGED <<attached, received>>
  /\ UNCHANGED jobVars

\* Stream l has a message its handler has not run for.
Pending(l) == l \in attached /\ received[l] # client.seen[l]

\* eventSource.onmessage of stream l: progress is reduced; a terminal event
\* closes the stream, clears the reference and either refetches the history
\* (completed) or reports the failure.
OnMessage(l) ==
  /\ Pending(l)
  /\ LET e == received[l]
         seen == [client EXCEPT !.seen[l] = e]
         advanced == IF e = "progress"
                       THEN reducer(seen, "STREAM_PROGRESS", hist.published)
                       ELSE seen
         closed == [advanced EXCEPT !.ref = 0, !.of[l] = NoParams]
     IN  IF e \in Terminal
           THEN /\ attached' = attached \ {l}
                /\ client' = IF e = "completed"
                               THEN [closed EXCEPT !.refetch = TRUE]
                               ELSE reducer(closed, "STREAM_FAILURE", 0)
           ELSE /\ client' = advanced
                /\ UNCHANGED attached
  /\ UNCHANGED <<received, jobVars>>

\* The history of the subject, fetched after "completed", has arrived:
\* STREAM_SUCCESS; an answer without a body ends the handler.
OnRefetched ==
  /\ client.refetch
  /\ client' = IF cache.exists
                 THEN [reducer(client, "STREAM_SUCCESS", Subject) EXCEPT !.refetch = FALSE]
                 ELSE [client EXCEPT !.refetch = FALSE]
  /\ UNCHANGED <<attached, received, jobVars>>

\* The timeout the cooldown effect wants: one for a cooldown above 0.
Wanted == IF client.cooldown > 0 THEN client.cooldown ELSE 0

\* The cooldown effect runs after a render in which the cooldown has
\* changed: the cleanup of its previous run clears the timeout, and a
\* cooldown above 0 sets a new one.
CooldownEffect ==
  /\ client.timer # Wanted
  /\ client' = [client EXCEPT !.timer = Wanted]
  /\ UNCHANGED <<attached, received, jobVars>>

\* The timeout of the cooldown effect fires after one second.
CooldownTick ==
  /\ client.timer # 0
  /\ client' = [reducer(client, "DECREMENT_COOLDOWN", 0) EXCEPT !.timer = 0]
  /\ UNCHANGED <<attached, received, jobVars>>

\* One client and the job it asks for, without faults of the environment;
\* every request is the client's, and it asks for updates of the subject
\* only.
ClientInit == Init /\ fatal = {}

ClientNext ==
  \/ \E p \in Players \cup {NoParams} : client.mounts < MaxMounts /\ Mount(p)
  \/ \E m \in 1..MaxVisits : HistoryServed(m)
  \/ \E m \in 1..MaxVisits : OnHistory(m)
  \/ client.params # Other /\ handleSubmit
  \/ \E r \in Reqs : UpdateServed(r)
  \/ \E r \in Reqs : OnUpdateResponse(r)
  \/ \E l \in Listeners : OnMessage(l)
  \/ OnRefetched
  \/ CooldownEffect
  \/ CooldownTick
  \/ dispatch_fetch_job
  \/ \E w \in Workers, i \in Items : TakeTask(w, i)
  \/ \E w \in Workers : AcquireGate(w)
  \/ \E w \in Workers : FetchOk(w)
  \/ \E w \in Workers : IncrProcessed(w)
  \/ aggregate_results_task
  \/ AggregatorStep
  \/ Tick

ClientSpec == ClientInit /\ [][ClientNext]_vars

\* ------------------------------------- the client against any server
\* The seconds a 429 answer names, -1 for none.
Seconds == {-1} \cup (0..MaxSeconds)

\* The answers to POST /update the client tells apart: 200, an answer that
\* is not ok, and 429 with a body that is no JSON (text, with or without a
\* number in it), the JSON null, an object with cooldown_seconds and
\* in_progress of its own (top) or in its detail, or a detail string with
\* or without a number.
Answers ==
  {[code |-> c, shape |-> "top", seconds |-> -1, flag |-> "absent"] : c \in {"r200", "r500"}}
  \cup {[code |-> "r429", shape |-> sh, seconds |-> n, flag |-> "absent"] :
           sh \in {"text", "string"}, n \in Seconds}
  \cup {[code |-> "r429", shape |-> "null", seconds |-> -1, flag |-> "absent"]}
  \cup {[code |-> "r429", shape |-> sh, seconds |-> n, flag |-> f] :
           sh \in {"top", "detail"}, n \in Seconds, f \in {"absent", "true", "false"}}

\* A server answers GET /history of call m.
HistoryAnswered(m) ==
  /\ client.gets[m].code = "sent"
  /\ \/ \E code \in {"r204", "r404"} : client' = [client EXCEPT !.gets[m].code = code]
     \/ \E n \in 0..DefaultCooldown, b \in BOOLEAN :
          client' = [client EXCEPT !.gets[m].code = "r200",
                                   !.gets[m].body = [cooldown |-> n, in_progress |-> b]]
  /\ UNCHANGED <<attached, received, jobVars>>

\* A server answers POST /update of request r with a.
UpdateAnswered(r, a) ==
  /\ client.posts[r] # NoParams
  /\ client.resp[r].code = "none"
  /\ client' = [client EXCEPT !.resp[r] = a]
  /\ UNCHANGED <<attached, received, jobVars>>

\* The payloads of a progress event.
Payloads == {[processed |-> n, total |-> t] : n \in 0..MaxTotal, t \in 0..MaxTotal}

\* A server sends event e on the subject's stream, a progress event with
\* payload p.
Published(e, p) ==
  /\ attached # {}
  /\ received' = Deliver(e)
  /\ hist' = IF e = "progress" THEN [hist EXCEPT !.published = p] ELSE hist
  /\ UNCHANGED <<now, nItems, fatal, cache, cooldownExp, lockExp, gateExp, agg,
                 results, queue, dispatchQ, aggQ, wpc, witem, wtries, wwake, req,
                 status, agpc, aglist, attached, client>>

\* The client alone, before its first render; what a server does is drawn.
UiInit == ClientInit /\ nItems = 0

\* The user moves between the start page and the pages of two players;
\* history answers and events arrive at any time.
UiNext ==
  \/ \E p \in Players \cup {NoParams} : Mount(p)
  \/ \E m \in 1..MaxVisits : HistoryAnswered(m)
  \/ \E m \in 1..MaxVisits : OnHistory(m)
  \/ \E e \in Terminal \cup {"progress"} : Published(e, [processed |-> 1, total |-> 2])
  \/ \E l \in Listeners : OnMessage(l)
  \/ OnRefetched
  \/ CooldownEffect
  \/ CooldownTick

UiSpec == UiInit /\ [][UiNext]_vars

\* The user stays on the page of the subject and asks for updates, which a
\* server answers in any of the ways the client tells apart.
AnswerNext ==
  \/ client.mounts = 0 /\ Mount(Subject)
  \/ \E m \in 1..MaxVisits : HistoryAnswered(m)
  \/ \E m \in 1..MaxVisits : OnHistory(m)
  \/ handleSubmit
  \/ \E r \in Reqs, a \in Answers : UpdateAnswered(r, a)
  \/ \E r \in Reqs : OnUpdateResponse(r)
  \/ \E e \in Terminal \cup {"progress"} : Published(e, [processed |-> 1, total |-> 2])
  \/ \E l \in Listeners : OnMessage(l)
  \/ OnRefetched
  \/ CooldownEffect
  \/ CooldownTick

AnswerSpec == UiInit /\ [][AnswerNext]_vars

\* What the user types into a field of the form.
Values == {"", "x", "y"}

\* A route with the region only.
Partial == [region |-> "x", username |-> "", tag |-> ""]

\* The user edits and submits the form, on the start page, on the page of a
\* player and on a route with some of the parameters.
FormNext ==
  \/ \E p \in Players \cup {NoParams, Partial} : client.mounts < MaxMounts /\ Mount(p)
  \/ \E m \in 1..MaxVisits : HistoryServed(m)
  \/ \E m \in 1..MaxVisits : OnHistory(m)
  \/ \E f \in Fields, v \in Values : handleInputChange(f, v)
  \/ handleSubmit

FormSpec == UiInit /\ [][FormNext]_vars

\* The client on the page of the subject, with progress events of any
\* payload arriving on its stream.
ProgressNext ==
  \/ client.mounts = 0 /\ Mount(Subject)
  \/ \E m \in 1..MaxVisits : HistoryServed(m)
  \/ \E m \in 1..MaxVisits : OnHistory(m)
  \/ \E p \in Payloads : Published("progress", p)
  \/ \E l \in Listeners : OnMessage(l)

ProgressSpec == UiInit /\ [][ProgressNext]_vars

\* ============================================================ properties
Accepted == {r \in Reqs : req[r].outcome = "accepted"}

\* Work of the job that is queued or running somewhere.
Outstanding ==
  \/ dispatchQ > 0
  \/ aggQ > 0
  \/ agpc > 0
  \/ \E i \in Items : queue[i] > 0
  \/ \E w \in Workers : wpc[w] # "idle"

\* Item i is queued or held by a worker.
InFlight(i) == queue[i] > 0 \/ \E w \in Workers : wpc[w] # "idle" /\ witem[w] = i

\* A worker passes the rate gate in this step.
Granted(w) == wpc[w] = "gate" /\ wpc'[w] = "fetch"

\* The items of the cached artifact.
CachedItems == {cache.data[k] : k \in 1..Len(cache.data)}

\* One accepted dispatch, no duplicate delivery, no lost task.
FaultFree == hist.created = 1 /\ hist.dups = 0 /\ hist.faults = 0

\* C1: for every job, among all increments of processed at most one returns
\* total, so the aggregator is triggered at most once per JobAggregate, also
\* when several workers increment around total-1 -> total.
C1_AggregatorTriggeredAtMostOnce == hist.triggers <= 1

C1_Witness ==
  /\ hist.triggers = 1
  /\ agg.exists /\ agg.total >= 2 /\ agg.processed = agg.total
  /\ \E w \in Workers : wpc[w] = "incr"

\* C2: in every reachable state of a job 0 <= processed <= total.
C2_ProcessedWithinTotal ==
  agg.exists => 0 <= agg.processed /\ agg.processed <= agg.total

\* C3: PartialResultSet never holds two entries with the same item_id,
\* however often the task of an item is retried or delivered again.
C3_OneEntryPerItem == \A i \in Items : Entries(results, i) <= 1

C3_Witness ==
  \E w1, w2 \in Workers :
    /\ w1 # w2
    /\ wpc[w1] = "incr" /\ wpc[w2] = "incr"
    /\ witem[w1] = witem[w2]
    /\ Entries(results, witem[w1]) = 1

\* C4: of the dispatch calls that meet one DispatchLock only one acquires it:
\* a further acceptance needs the lock to have ended in between, and a
\* refused call creates no job and no task.
C4_OneAcquisitionPerLock ==
  /\ Cardinality(Accepted) <= hist.lockEnds + 1
  /\ hist.created + dispatchQ <= Cardinality(Accepted)
  /\ \A r \in Reqs : req[r].outcome = "in_progress" => Accepted # {}

C4_Witness ==
  /\ now = 0
  /\ req[1].outcome = "accepted"
  /\ req[2].outcome = "in_progress"
  /\ hist.created = 1

\* C5: for one subject never more than one job is in flight: no second
\* JobAggregate is created before the aggregator of the first has finished,
\* however long the job runs relative to the lock's TTL.
C5_OneJobInFlight == hist.created <= hist.finished + 1

\* C6: any two granted rate gate acquisitions are at least the minimum
\* interval apart.
C6_GrantsSpaced ==
  [][\A w \in Workers :
       Granted(w) => hist.lastGrant = -1 \/ now >= hist.lastGrant + RateInterval]_vars

C6_Witness ==
  \E w1, w2 \in Workers :
    /\ wpc[w1] = "fetch" /\ wpc[w2] = "gate"
    /\ hist.lastGrant = now
    /\ ~GateFree

\* C7: after a rate-limit response with backoff B at time t no worker is
\* granted the rate gate before t + B.
C7_BackoffDelaysAll ==
  [][\A w \in Workers : Granted(w) => now >= hist.penaltyUntil]_vars

\* C8: no job stays in the fetching state forever: a job that has not
\* reached processed = total always has work queued or running.
C8_NoStuckJob ==
  ~(agg.exists /\ agg.processed < agg.total /\ status = "fetching" /\ ~Outstanding)

\* C9: once a JobAggregate is stale past the threshold, every item absent
\* from PartialResultSet has been re-enqueued by the reconciliation sweep.
C9_SweepResumesMissing ==
  (agg.exists /\ hist.idle >= StaleAfter) =>
    \A i \in 1..agg.total : Entries(results, i) = 0 => InFlight(i)

\* C10: a job with one item that always fails fatally still completes: the
\* item is counted and tombstoned, the aggregator is triggered with
\* processed = total over T-1 payloads and 1 tombstone, the job is not failed
\* and (no task being lost) it never hangs.
C10_FatalItemTombstoned ==
  (Cardinality(fatal) = 1 /\ hist.created = 1 /\ hist.dups = 0) =>
    /\ status # "failed"
    /\ \A i \in Items : results[i].payload > 0 => i \notin fatal
    /\ (aggQ > 0 /\ agg.exists) =>
         /\ agg.processed = agg.total
         /\ \A i \in 1..agg.total :
              /\ results[i].tombstone = (IF i \in fatal THEN 1 ELSE 0)
              /\ results[i].payload = (IF i \in fatal THEN 0 ELSE 1)
    /\ status = "completed" => cache.exists /\ CachedItems = Enumerated \ fatal
    /\ (hist.faults = 0 /\ agg.exists /\ agg.processed < agg.total) => Outstanding

C10_Witness ==
  /\ Cardinality(fatal) = 1 /\ nItems = MaxItems
  /\ FaultFree
  /\ status = "completed"
  /\ CachedItems = Enumerated \ fatal

\* C11: when every item of a job is fetched successfully (one dispatch, no
\* item fatal, no duplicate delivery), exactly one "completed" event is
\* published: never a second one, never "failed", and as long as none has
\* been published and no task was lost, work is still queued or running; at
\* the completed event the cache holds all T items.
C11_ExactlyOneCompleted ==
  (fatal = {} /\ hist.created = 1 /\ hist.dups = 0) =>
    /\ hist.completed <= 1
    /\ status # "failed"
    /\ hist.completed = 1 =>
         /\ status = "completed"
         /\ cache.exists
         /\ Len(cache.data) = nItems
         /\ CachedItems = Enumerated
    /\ (hist.faults = 0 /\ hist.completed = 0) => Outstanding

C11_Witness ==
  /\ nItems = MaxItems /\ fatal = {}
  /\ FaultFree
  /\ hist.completed = 1 /\ status = "completed"
  /\ Len(cache.data) = MaxItems
  /\ ~Outstanding

\* C12: the cached artifact is ordered by timestamp, newest first, and
\* holds no item twice, whatever order the workers stored their results in;
\* after a job whose items were all fetched it holds exactly the T items.
C12_CacheSortedComplete ==
  cache.exists =>
    /\ \A k \in 1..(Len(cache.data) - 1) :
         Timestamp(cache.data[k]) > Timestamp(cache.data[k + 1])
    /\ fatal = {} => Len(cache.data) = nItems /\ CachedItems = Enumerated

C12_Witness ==
  /\ cache.exists /\ hist.reordered
  /\ fatal = {} /\ nItems = MaxItems
  /\ Len(cache.data) = MaxItems

\* Request r is answered in this step.
Admitted(r) == req[r].outcome = "none" /\ req'[r].outcome # "none"

\* The step starts no job: no lock, no dispatch task, no job state, no task.
NothingStarted ==
  /\ lockExp' = lockExp /\ dispatchQ' = dispatchQ
  /\ agg' = agg /\ queue' = queue /\ status' = status

C14_AdmissionOrder ==
  [][\A r \in Reqs :
       Admitted(r) =>
         /\ cache.exists => req'[r].outcome = "cached"
         /\ (~cache.exists /\ Held(cooldownExp)) => req'[r].outcome = "cooldown"
         /\ (~cache.exists /\ ~Held(cooldownExp) /\ Held(lockExp)) =>
              req'[r].outcome = "in_progress"
         /\ req'[r].outcome \in {"cached", "cooldown", "in_progress"} =>
              NothingStarted]_vars

C14_Witness ==
  /\ now = 0
  /\ req[1].outcome = "cached"
  /\ cache.exists /\ Held(cooldownExp) /\ Held(lockExp)
  /\ dispatchQ = 0 /\ ~agg.exists

\* A dispatch task runs in this step.
Dispatched == dispatchQ' = dispatchQ - 1

\* Tasks of item i that are queued or held by a worker.
TasksOf(i) == queue[i] + Cardinality({w \in Workers : witem[w] = i})

\* C15: every accepted dispatch (of a subject with items) creates one
\* JobAggregate, with processed = 0 and total = the number of enumerated
\* items, and enqueues one fetch task per item: none missing, none twice,
\* none for an item that was not enumerated.
C15_OneAggregateNTasks ==
  /\ [](nItems > 0 => hist.created + dispatchQ = Cardinality(Accepted))
  /\ [](\A i \in Items : i \notin Enumerated => TasksOf(i) = 0)
  /\ []((hist.created = 1 /\ hist.dups = 0) => \A i \in Enumerated : TasksOf(i) <= 1)
  /\ [][(Dispatched /\ Enumerated # {}) =>
         /\ agg' = [exists |-> TRUE, total |-> Cardinality(Enumerated), processed |-> 0]
         /\ hist'.created = hist.created + 1
         /\ \A i \in Items :
              queue'[i] = queue[i] + (IF i \in Enumerated THEN 1 ELSE 0)]_vars

C15_Witness ==
  /\ nItems = MaxItems
  /\ Cardinality(Accepted) = 1 /\ hist.created = 1 /\ dispatchQ = 0
  /\ agg.exists /\ agg.total = MaxItems /\ agg.processed = 0
  /\ \A i \in Items : queue[i] = 1
  /\ \A w \in Workers : wpc[w] = "idle"

\* C16: when the enumeration yields nothing (no items, or the identity does
\* not resolve) the dispatch creates no JobAggregate and no task, releases
\* the lock at once, so that no lock outlives the dispatch tasks, and
\* publishes no_matches.
C16_NoItemsReleasesLock ==
  /\ [](Enumerated = {} =>
         /\ ~agg.exists /\ hist.created = 0 /\ aggQ = 0
         /\ \A i \in Items : TasksOf(i) = 0
         /\ Held(lockExp) => dispatchQ > 0)
  /\ [][(Dispatched /\ Enumerated = {}) =>
         /\ lockExp' = 0
         /\ status' = "no_matches"
         /\ agg' = agg /\ queue' = queue]_vars

C16_Witness ==
  /\ nItems = 0
  /\ now = 0
  /\ req[1].outcome = "accepted"
  /\ status = "no_matches"
  /\ lockExp = 0 /\ hist.lockEnds = 1
  /\ dispatchQ = 0 /\ ~agg.exists

\* An aggregator task runs in this step.
Aggregated == aggQ' = aggQ - 1

\* C17: an aggregator that finds the result list empty although total > 0
\* publishes "failed" and writes no artifact: the cache, with the subject's
\* previous artifact if there is one, stays as it was.
C17_EmptyResultsFail ==
  [][(Aggregated /\ agg.exists /\ agg.total > 0 /\ EntryCount(results) = 0) =>
       /\ status' = "failed"
       /\ cache' = cache
       /\ hist'.completed = hist.completed]_vars

C17_Witness ==
  /\ status = "failed"
  /\ agg.exists /\ agg.total > 0
  /\ EntryCount(results) = 0
  /\ cache.exists /\ Len(cache.data) > 0

\* C18: an aggregator that finds a number of entries different from total
\* publishes "failed"; it goes on to write the cache and to publish
\* "completed" only when the entry count equals total.
C18_CountMismatchFails ==
  [][/\ (Aggregated /\ agg.exists) =>
          /\ EntryCount(results) # agg.total =>
               /\ status' = "failed"
               /\ cache' = cache
               /\ hist'.completed = hist.completed
               /\ hist'.finished = hist.finished + 1
               /\ agpc' = 0
          /\ agpc' # 0 => EntryCount(results) = agg.total
     /\ (cache' # cache \/ hist'.completed # hist.completed) => agpc # 0]_vars

C18_Witness ==
  /\ status = "failed"
  /\ agg.exists
  /\ EntryCount(results) > 0 /\ EntryCount(results) < agg.total
  /\ agg.processed = agg.total
  /\ hist.completed = 0 /\ ~cache.exists

\* The moves of the status the state machine has.
Moves ==
  {<<"idle", "dispatched">>, <<"dispatched", "fetching">>,
   <<"dispatched", "no_matches">>, <<"fetching", "completed">>,
   <<"fetching", "failed">>} \cup {<<t, "dispatched">> : t \in Terminal}

\* C19: the status of the subject only moves idle -> dispatched -> fetching
\* -> completed, failed or no_matches; a terminal status changes only by a
\* new accepted dispatch, and while it stands no dispatch task and no
\* aggregator publishes another event.
C19_StatusMachine ==
  [][/\ status' # status => <<status, status'>> \in Moves
     /\ (status \in Terminal /\ status' = status) =>
          ~Dispatched /\ ~(Aggregated /\ agg.exists)]_vars

\* The running aggregator takes its last step.
Completing == agpc # 0 /\ agpc' = 0

\* An event is published in this step: by a dispatch task, by an increment
\* of processed, by an aggregator whose check fails, or by one that has
\* finished.
PublishedNow ==
  \/ Dispatched
  \/ agg.exists /\ agg'.exists /\ agg'.processed = agg.processed + 1
  \/ Aggregated /\ agg.exists /\ ~Verified(results, agg)
  \/ Completing

C21_LocksExpire ==
  /\ [](lockExp # 0 => now < lockExp /\ lockExp <= now + LockTTL)
  /\ [](gateExp # 0 => now < gateExp /\ gateExp <= now + RateInterval)
  /\ [](\A w \in Workers : (wpc[w] = "gate" /\ gateExp = 0) => ENABLED AcquireGate(w))
  /\ [][\A r \in Reqs :
         (Admitted(r) /\ ~cache.exists /\ cooldownExp = 0 /\ lockExp = 0) =>
           /\ req'[r].outcome = "accepted"
           /\ lockExp' = now + LockTTL]_vars

C21_Witness ==
  /\ nItems = 1 /\ hist.dups = 0
  /\ hist.fault = "crash" /\ hist.orphan
  /\ req[1].outcome = "accepted" /\ req[2].outcome = "accepted"
  /\ hist.created = 2
  /\ Held(lockExp)
  /\ \E w \in Workers : wpc[w] = "fetch" /\ hist.lastGrant = now /\ Held(gateExp)

\* The items the result list holds a payload for.
Fetched == {i \in Items : results[i].payload > 0}

\* C22: the cached artifact changes only when the aggregator of a job that
\* passed the check saves its list, and then it is replaced as a whole by
\* the payloads of all items of that job; requests, dispatch, fetch tasks,
\* retries, failed jobs and faults leave it unchanged, and no reader finds an
\* artifact with only part of a job's results.
C22_CacheReplacedWholesale ==
  /\ [][cache' # cache =>
         /\ agpc # 0 /\ AggregatorSteps[agpc] = "save"
         /\ agg.exists /\ EntryCount(results) = agg.total
         /\ \A i \in 1..agg.total : Entries(results, i) = 1
         /\ cache'.exists
         /\ Len(cache'.data) = Cardinality(Fetched)
         /\ {cache'.data[k] : k \in 1..Len(cache'.data)} = Fetched
         /\ status' # "failed"]_vars
  /\ [](cache.exists =>
         /\ CachedItems = Enumerated \ fatal
         /\ Len(cache.data) = Cardinality(Enumerated \ fatal))
  /\ [](status = "failed" /\ hist.completed = 0 => ~cache.exists)

C22_Witness ==
  /\ nItems = MaxItems
  /\ hist.created = 2 /\ hist.completed = 2
  /\ cache.exists /\ Len(cache.data) = Cardinality(Enumerated \ fatal)

\* C23: a subject that already has a cached artifact can be fetched again:
\* once the job that wrote it is over and its cooldown has expired (and no
\* job holds the lock) a request for it is accepted and starts a job.
C23_RefetchAfterCooldown ==
  [][\A r \in Reqs :
       (/\ Admitted(r)
        /\ cache.exists /\ hist.completed > 0 /\ agpc = 0
        /\ ~Held(cooldownExp) /\ ~Held(lockExp)) =>
         /\ req'[r].outcome = "accepted"
         /\ dispatchQ' = dispatchQ + 1]_vars

\* Items whose entry is recorded while a task of theirs is still queued or
\* running.
AppendedInFlight == {i \in Items : Entries(results, i) > 0 /\ InFlight(i)}

\* C24: a worker that crashes after appending an item's result and before
\* incrementing processed does not lose the item: in a job without duplicate
\* deliveries every recorded entry is either counted in processed or has a
\* task queued or running that will count it (the retry or the re-enqueued
\* task), so the job still reaches processed = total.
C24_CrashedAppendRecovered ==
  (agg.exists /\ hist.created = 1 /\ hist.dups = 0) =>
    EntryCount(results) - agg.processed <= Cardinality(AppendedInFlight)


\* The items with an entry (payload or tombstone) in the result list.
Recorded == {i \in Items : Entries(results, i) > 0}

\* C25: processed never exceeds the number of distinct items recorded in the
\* result list, so whenever processed = total every item has its entry, also
\* when a task is delivered twice or run again after its increment.
C25_ProcessedWithinRecorded ==
  agg.exists =>
    /\ agg.processed <= Cardinality(Recorded)
    /\ agg.processed = agg.total => Recorded = 1..agg.total

\* The fetch of worker w fails with a retryable error in this step and the
\* worker lets its task go.
GivenUp(w) ==
  /\ wpc[w] = "fetch" /\ wpc'[w] = "idle"
  /\ hist'.faults = hist.faults + 1
  /\ hist'.fault \in {"timeout", "exhausted"}

\* C26: a fetch task that fails with a retryable error (timeout, 429) is run
\* again as the same task, for the same item of the same job; it is given up
\* only when the maximum retry count is used up, and no item is retried more
\* often than that.
C26_RetryableRetriedUpToBound ==
  /\ [](\A w \in Workers : wtries[w] <= MaxRetry)
  /\ [][\A w \in Workers :
         /\ GivenUp(w) => wtries[w] >= MaxRetry
         /\ wtries'[w] = wtries[w] + 1 => witem'[w] = witem[w] /\ agg' = agg]_vars

\* The items of the job without an entry in the result list.
Missing == {i \in 1..agg.total : Entries(results, i) = 0}

JobStateDeleted == agg.exists /\ ~agg'.exists

C30_LateListenerLearnsTerminal ==
  (/\ client.status = "updating"
   /\ \A r \in Reqs : client.posts[r] = NoParams
   /\ client.last # 0 /\ req[client.last].outcome = "accepted"
   /\ client.ref # 0 /\ client.ref \in attached
   /\ status \in Terminal) =>
    \/ Outstanding
    \/ client.refetch
    \/ \E l \in Listeners : Pending(l)

\* The handler of stream l runs in this step for event e.
Handled(l, e) == Pending(l) /\ received[l] = e /\ client'.seen[l] = e

\* C31: the handler of a terminal event closes its stream and clears the
\* reference; after "failed" and "no_matches" the status is "error" with
\* progress 0, after "completed" the history is refetched and its arrival
\* gives status "success" with the history and progress 100; the handler of
\* a progress event closes nothing.
C31_TerminalEventClosesStream ==
  /\ [][\A l \in Listeners :
         /\ (\E e \in {"completed", "failed", "no_matches"} : Handled(l, e)) =>
              l \notin attached' /\ client'.ref = 0
         /\ (Handled(l, "failed") \/ Handled(l, "no_matches")) =>
              client'.status = "error" /\ client'.progress = 0
         /\ Handled(l, "completed") => client'.refetch
         /\ Handled(l, "progress") =>
              attached' = attached /\ client'.ref = client.ref]_vars
  /\ [][(client.refetch /\ ~client'.refetch) =>
         /\ client'.status = "success"
         /\ client'.history = Subject
         /\ client'.progress = 100]_vars

\* The client has handled "completed" and the refetched history: the stream
\* is closed, the status is "success" and the progress 100.
C31_Witness ==
  /\ \E l \in Listeners : client.seen[l] = "completed" /\ l \notin attached
  /\ client.ref = 0 /\ ~client.refetch
  /\ client.status = "success" /\ client.history = Subject /\ client.progress = 100

\* A progress event was handled on stream l, which is open.
Streaming(l) == client.of[l] # NoParams /\ client.seen[l] = "progress"

\* The timeout of the cooldown effect fires in this step.
Ticked == client.timer # 0 /\ client'.timer = 0 /\ client'.cooldown = client.cooldown - 1

\* The history of the player of the route arrives with 200 in this step.
Loaded ==
  \E m \in 1..MaxVisits :
    /\ client.gets[m].code = "r200" /\ client.gets[m].player = client.params
    /\ client'.gets[m].code = "none"

\* C33: while a status stream on which a progress event was handled stays
\* open, a cooldown tick or the arrival of the player's history leaves the
\* client's status "updating".
C33_UpdatingWhileStreaming ==
  [][\A l \in Listeners :
       (Streaming(l) /\ Streaming(l)' /\ (Ticked \/ Loaded)) =>
         client'.status = "updating"]_vars

\* C34: every status stream the client has open is the stream of the player
\* the route names, and on the page of a player the stored match history is
\* that player's.
C34_StreamAndHistoryOfRoute ==
  /\ \A l \in Listeners : client.of[l] # NoParams => client.of[l] = client.params
  /\ Complete(client.params) => client.history \in {NoParams, client.params}

\* The route changes in this step.
Navigated == client'.mounts # client.mounts

\* C35: the client has at most one status stream open, the referenced one;
\* a stream opened in a step is the only one open after it; and a change of
\* the route leaves none of the streams open that were open before it.
C35_OneStream ==
  /\ [](Cardinality(Open) <= 1 /\ Open \subseteq {client.ref})
  /\ [][(client'.ref # 0 /\ client'.ref # client.ref) => Open' = {client'.ref}]_vars
  /\ [][Navigated => \A l \in Open : client'.of[l] = NoParams]_vars

\* The answer to request r is handled in this step.
Answered(r) ==
  client.posts[r] # NoParams /\ Answer(r).code # "none" /\ client'.posts[r] = NoParams

\* C32: the handling of a 429 answer leaves the client in status "cooldown"
\* with the seconds the answer names, the default when it names none; it
\* opens the subject's stream when the answer's in_progress flag is true
\* and leaves the streams alone otherwise.
C32_Cooldown429 ==
  [][\A r \in Reqs :
       (Answered(r) /\ Answer(r).code = "r429") =>
         /\ client'.status = "cooldown"
         /\ client'.cooldown = (IF Answer(r).seconds >= 0 THEN Answer(r).seconds
                                ELSE DefaultCooldown)
         /\ IF Answer(r).flag = "true"
              THEN /\ client'.ref # 0 /\ Open' = {client'.ref}
                   /\ client'.of[client'.ref] = client.posts[r]
                   /\ client'.seen[client'.ref] = "none"
              ELSE /\ UNCHANGED <<attached, received>>
                   /\ client'.ref = client.ref /\ client'.of = client.of]_vars

\* C36: the cooldown is never below 0; a tick fires only for a cooldown
\* above 0, takes exactly 1 from it and leaves status "cooldown" while the
\* rest is above 0 and "success" when it is 0; and the submit button is
\* disabled while the cooldown is above 0.
C36_CooldownCountsDown ==
  /\ [](client.cooldown >= 0)
  /\ [](client.cooldown > 0 => ~SubmitEnabled)
  /\ [][Ticked =>
         /\ client.cooldown > 0
         /\ client'.cooldown = client.cooldown - 1
         /\ client'.status = (IF client'.cooldown > 0 THEN "cooldown" ELSE "success")]_vars

\* The fields of the form that are empty.
Empties == {f \in Fields : client.formData[f] = ""}

\* onUpdate runs in this step: UPDATE is dispatched and POST /update sent
\* for the player of the route.
UpdateCalled ==
  /\ \E r \in Reqs :
       /\ client.posts[r] = NoParams /\ client'.posts[r] = client.params
       /\ \A q \in Reqs \ {r} : client'.posts[q] = client.posts[q]
  /\ client'.status = "updating"

\* onSearch(data) runs in this step: the route becomes the one of data.
SearchCalled(data) == client'.mounts = client.mounts + 1 /\ client'.params = data

\* C37: a submit of the form marks exactly its empty fields; with an empty
\* field it calls neither onSearch nor onUpdate, with none it calls onUpdate
\* and not onSearch when the form shows the player of the route, and
\* onSearch with the form data and not onUpdate otherwise.
C37_SubmitValidates ==
  [][handleSubmit =>
       /\ client'.errors = [f \in Fields |-> f \in Empties]
       /\ Empties # {} =>
            /\ client'.posts = client.posts /\ client'.mounts = client.mounts
            /\ client'.params = client.params /\ client'.status = client.status
       /\ (Empties = {} /\ client.params = client.formData) =>
            UpdateCalled /\ client'.mounts = client.mounts
       /\ (Empties = {} /\ client.params # client.formData) =>
            SearchCalled(client.formData) /\ client'.posts = client.posts]_vars

\* A form with the username missing was submitted: the username alone is
\* marked, nothing was asked of the server and the route is the start page.
C37_Witness ==
  /\ client.formData.region # "" /\ client.formData.username = ""
  /\ client.formData.tag # ""
  /\ client.errors = [f \in Fields |-> f = "username"]
  /\ client.mounts = 0 /\ \A r \in Reqs : client.posts[r] = NoParams

\* C38: a progress event with processed <= total leaves a progress between
\* 0 and 100 that is 0 for a total of 0, else an integer nearest to
\* 100 * processed / total, and 100 only when that quotient is at least
\* 99.5.
C38_RoundedPercentage ==
  [][\A l \in Listeners :
       (Handled(l, "progress") /\ hist.published.processed <= hist.published.total) =>
         LET processed == hist.published.processed
             total == hist.published.total
             shown == client'.progress
         IN  /\ shown \in 0..100
             /\ total = 0 => shown = 0
             /\ total > 0 =>
                  /\ 200 * processed - 2 * shown * total <= total
                  /\ 2 * shown * total - 200 * processed <= total
             /\ shown = 100 => total > 0 /\ 200 * processed >= 199 * total]_vars

\* The event "1 of 8" was handled: 12.5 is shown as 13.
C38_Witness ==
  /\ hist.published = [processed |-> 1, total |-> 8]
  /\ \E l \in Listeners : l \in attached /\ client.seen[l] = "progress" /\ ~Pending(l)
  /\ client.status = "updating" /\ client.progress = 13
====
